---- MODULE Spec2Model ----
(***************************************************************************)
(* examples/cnn.py of GeoMX: one process running main().  The script is a  *)
(* linear procedure; the state is its local variables, its position (pc),  *)
(* and the history of the calls it has issued to the external key-value    *)
(* store and run-time (log).  The store, the run-time, the data loader and *)
(* the parameter collection are external: what they hand back is chosen    *)
(* in Init (grad_req_null) or at the call (what is_master_worker reads,    *)
(* what load_data returns, whether a store call or the barrier returns or  *)
(* raises).                                                                *)
(***************************************************************************)
EXTENDS Integers, Sequences, FiniteSets, TLC

\* Bounds of the model (inputs of the script, not constants of the code).
MaxEpochs == 2
MaxBatches == 1
MaxBatchSize == 2

VARIABLES
    args,              \* parsed command line (lines 45-55)
    grad_req_null,     \* the parameter indices whose grad_req is "null"
    train_iter,        \* the sample count of each batch of the local shard
    params,            \* list(net.collect_params().values())
    kvstore_dist,      \* the type of the store created, "none" before
    is_master_worker,
    pc,
    idx,
    epoch,
    batch_no,          \* position of the inner loop in train_iter (0-based)
    num_samples,
    global_iters,
    iter,              \* history: training iterations begun
    log                \* history: the calls issued, in order

vars == <<args, grad_req_null, train_iter, params, kvstore_dist,
          is_master_worker, pc, idx, epoch, batch_no, num_samples,
          global_iters, iter, log>>

env == <<args, grad_req_null>>

--------------------------------------------------------------------------
\* The network (lines 60-67) and the shapes of its parameters, inferred by
\* the forward pass of line 71 on an input of shape (batch_size, 1, 28, 28).

Layers ==
    << [kind |-> "conv", channels |-> 6, kernel_size |-> 5],
       [kind |-> "pool", pool_size |-> 2, strides |-> 2],
       [kind |-> "conv", channels |-> 16, kernel_size |-> 5],
       [kind |-> "pool", pool_size |-> 2, strides |-> 2],
       [kind |-> "dense", units |-> 120],
       [kind |-> "dense", units |-> 84],
       [kind |-> "dense", units |-> 10] >>

shape(batch_size) == <<batch_size, 1, 28, 28>>

RECURSIVE Prod(_)
Prod(s) == IF s = <<>> THEN 1 ELSE Head(s) * Prod(Tail(s))

\* Dense flattens its input: in_units is the product of all but the batch axis.
InUnitsAll(in) == Prod(in)
InUnits(in) == Prod(Tail(in))

OutShape(layer, in) ==
    CASE layer.kind = "conv" ->
            <<in[1], layer.channels,
              in[3] - layer.kernel_size + 1, in[4] - layer.kernel_size + 1>>
      [] layer.kind = "pool" ->
            <<in[1], in[2],
              (in[3] - layer.pool_size) \div layer.strides + 1,
              (in[4] - layer.pool_size) \div layer.strides + 1>>
      [] layer.kind = "dense" -> <<in[1], layer.units>>

\* weight then bias, float32 (the default dtype of a gluon parameter)
LayerParams(layer, in) ==
    CASE layer.kind = "conv" ->
            << [shape |-> <<layer.channels, in[2], layer.kernel_size, layer.kernel_size>>,
                dtype |-> "float32"],
               [shape |-> <<layer.channels>>, dtype |-> "float32"] >>
      [] layer.kind = "pool" -> <<>>
      [] layer.kind = "dense" ->
            << [shape |-> <<layer.units, InUnits(in)>>, dtype |-> "float32"],
               [shape |-> <<layer.units>>, dtype |-> "float32"] >>

RECURSIVE CollectParams(_, _)
CollectParams(k, in) ==
    IF k > Len(Layers) THEN <<>>
    ELSE LayerParams(Layers[k], in) \o CollectParams(k + 1, OutShape(Layers[k], in))

NumParams == Len(CollectParams(1, shape(1)))

\* param.grad_req of the parameter at (0-based) index i
GradReqWrite(i) == "write"
GradReq(i) == IF i \in grad_req_null THEN "null" ELSE "write"

\* param.data() and param.grad(): arrays of the parameter's shape and dtype
ParamData(i) == [shape |-> params[i + 1].shape, dtype |-> params[i + 1].dtype]
ParamGrad(i) == [shape |-> params[i + 1].shape, dtype |-> params[i + 1].dtype,
                 of |-> [param |-> i, iter |-> iter, samples |-> train_iter[batch_no + 1]]]

--------------------------------------------------------------------------
\* Mode selection (lines 73-91).

StoreType(a) ==
    IF a.is_mix_sync THEN "dist_async"
    ELSE IF a.is_dcasgd THEN "dist_async"
    ELSE IF a.run_local THEN "local"
    ELSE "dist_sync"

IsLocalBranch(a) == ~a.is_mix_sync /\ ~a.is_dcasgd /\ a.run_local

\* reported: what kvstore_dist.is_master_worker reads in a distributed store
IsMaster(a, reported) == IF IsLocalBranch(a) THEN FALSE ELSE reported

InstallsOptimizerAlways(a, master) == TRUE
InstallsOptimizer(a, master) == IF IsLocalBranch(a) THEN TRUE ELSE master

Optimizer(a) ==
    IF a.is_mix_sync THEN "Adam"
    ELSE IF a.is_dcasgd THEN "DCASGD"
    ELSE "Adam"

--------------------------------------------------------------------------
\* The calls, as they are recorded in the log.

PriorityPlain(i) == i
Priority(i) == 0 - i

\* array / scalar: elementwise, the shape and dtype of the array are kept
DivScalar(g, n) == [shape |-> g.shape, dtype |-> g.dtype, grad |-> g.of, div |-> n]

SetOptimizerCall(ok) ==
    [op |-> "set_optimizer", optimizer |-> Optimizer(args), it |-> 0, ok |-> ok]
InitCall(i, ok) ==
    [op |-> "init", key |-> i, value |-> ParamData(i), it |-> iter, ok |-> ok]
PullCall(i, ok) ==
    [op |-> "pull", key |-> i, out |-> ParamData(i), priority |-> Priority(i),
     it |-> iter, ok |-> ok]
PushCallByBatchSize(i, ok) ==
    [op |-> "push", key |-> i, value |-> DivScalar(ParamGrad(i), args.batch_size),
     priority |-> Priority(i), it |-> iter, ok |-> ok]
PushCall(i, ok) ==
    [op |-> "push", key |-> i, value |-> DivScalar(ParamGrad(i), num_samples),
     priority |-> Priority(i), it |-> iter, ok |-> ok]
WaitallCall(ok) == [op |-> "waitall", it |-> iter, ok |-> ok]
LoadDataCall == [op |-> "load_data", it |-> iter, ok |-> TRUE]
EvalCall == [op |-> "eval_acc", it |-> iter, ok |-> TRUE]

\* An exception that nothing catches ends the script.
RaiseRetry == pc' = pc
Raise == pc' = "failed"

--------------------------------------------------------------------------
Flags == [is_mix_sync : BOOLEAN, is_dcasgd : BOOLEAN, run_local : BOOLEAN,
          batch_size : 1..MaxBatchSize, epochs : (0 - 1)..MaxEpochs]

\* The batches of a shard: full batches, the last one possibly short.
Batches(bs) ==
    {<<>>} \cup
    { [k \in 1..n |-> IF k < n THEN bs ELSE last] : n \in 1..MaxBatches, last \in 1..bs }

NullChoices == { {}, {0, 5, 9} }

Init ==
    /\ args \in Flags
    /\ grad_req_null \in NullChoices
    /\ train_iter = <<>>
    /\ params = <<>>
    /\ kvstore_dist = "none"
    /\ is_master_worker = FALSE
    /\ pc = "build"
    /\ idx = 0
    /\ epoch = 0
    /\ batch_no = 0
    /\ num_samples = 0
    /\ global_iters = 0
    /\ iter = 0
    /\ log = <<>>

\* lines 58-71: the network is built and its deferred shapes are inferred
BuildNet ==
    /\ pc = "build"
    /\ params' = CollectParams(1, shape(args.batch_size))
    /\ pc' = "config"
    /\ UNCHANGED <<env, train_iter, kvstore_dist, is_master_worker, idx, epoch, batch_no,
                   num_samples, global_iters, iter, log>>

\* lines 73-93: the store is created and, where the mode says so, the optimizer installed
Configure ==
    /\ pc = "config"
    /\ kvstore_dist' = StoreType(args)
    /\ \E reported \in BOOLEAN : is_master_worker' = IsMaster(args, reported)
    /\ IF InstallsOptimizer(args, is_master_worker')
       THEN \E ok \in BOOLEAN :
                /\ log' = Append(log, SetOptimizerCall(ok))
                /\ IF ok THEN pc' = "init_loop" ELSE Raise
       ELSE /\ log' = log
            /\ pc' = "init_loop"
    /\ idx' = 0
    /\ UNCHANGED <<env, train_iter, params, epoch, batch_no, num_samples, global_iters, iter>>

StartupInitThenPull ==
    /\ pc = "init_loop"
    /\ IF idx >= Len(params)
       THEN /\ pc' = "init_wait"
            /\ UNCHANGED <<idx, log>>
       ELSE IF GradReq(idx) = "null"
       THEN /\ idx' = idx + 1
            /\ UNCHANGED <<pc, log>>
       ELSE \E ok \in BOOLEAN :
                /\ log' = Append(log, InitCall(idx, ok))
                /\ IF ~ok THEN Raise ELSE pc' = "init_pull"
                /\ UNCHANGED idx
    /\ UNCHANGED <<env, train_iter, params, kvstore_dist, is_master_worker, epoch, batch_no,
                   num_samples, global_iters, iter>>

\* lines 98-103: one turn of the start-up loop, up to and including init
StartupInit ==
    /\ pc = "init_loop"
    /\ IF idx >= Len(params)
       THEN /\ pc' = "init_wait"
            /\ UNCHANGED <<idx, log>>
       ELSE IF GradReq(idx) = "null"
       THEN /\ idx' = idx + 1
            /\ UNCHANGED <<pc, log>>
       ELSE \E ok \in BOOLEAN :
                /\ log' = Append(log, InitCall(idx, ok))
                /\ IF ~ok THEN Raise /\ UNCHANGED idx
                   ELSE IF is_master_worker THEN idx' = idx + 1 /\ UNCHANGED pc
                   ELSE pc' = "init_pull" /\ UNCHANGED idx
    /\ UNCHANGED <<env, train_iter, params, kvstore_dist, is_master_worker, epoch, batch_no,
                   num_samples, global_iters, iter>>

\* line 104
StartupPull ==
    /\ pc = "init_pull"
    /\ \E ok \in BOOLEAN :
        /\ log' = Append(log, PullCall(idx, ok))
        /\ IF ok THEN pc' = "init_loop" /\ idx' = idx + 1
                 ELSE Raise /\ UNCHANGED idx
    /\ UNCHANGED <<env, train_iter, params, kvstore_dist, is_master_worker, epoch, batch_no,
                   num_samples, global_iters, iter>>

\* lines 105-108
StartupWaitall ==
    /\ pc = "init_wait"
    /\ \E ok \in BOOLEAN :
        /\ log' = Append(log, WaitallCall(ok))
        /\ IF ~ok THEN Raise
           ELSE IF is_master_worker THEN pc' = "done"
           ELSE pc' = "load"
    /\ UNCHANGED <<env, train_iter, params, kvstore_dist, is_master_worker, idx, epoch, batch_no,
                   num_samples, global_iters, iter>>

\* lines 110-124
LoadData ==
    /\ pc = "load"
    /\ log' = Append(log, LoadDataCall)
    /\ train_iter' \in Batches(args.batch_size)
    /\ global_iters' = 1
    /\ epoch' = 0
    /\ pc' = "epoch_loop"
    /\ UNCHANGED <<env, params, kvstore_dist, is_master_worker, idx, batch_no,
                   num_samples, iter>>

EpochLoopInclusive ==
    /\ pc = "epoch_loop"
    /\ IF epoch <= args.epochs
       THEN pc' = "batch_loop" /\ batch_no' = 0
       ELSE pc' = "done" /\ UNCHANGED batch_no
    /\ UNCHANGED <<env, train_iter, params, kvstore_dist, is_master_worker, idx, epoch,
                   num_samples, global_iters, iter, log>>

\* line 125
EpochLoop ==
    /\ pc = "epoch_loop"
    /\ IF epoch < args.epochs
       THEN pc' = "batch_loop" /\ batch_no' = 0
       ELSE pc' = "done" /\ UNCHANGED batch_no
    /\ UNCHANGED <<env, train_iter, params, kvstore_dist, is_master_worker, idx, epoch,
                   num_samples, global_iters, iter, log>>

\* lines 126-132: the next batch, forward and backward
BatchLoop ==
    /\ pc = "batch_loop"
    /\ IF batch_no < Len(train_iter)
       THEN /\ num_samples' = train_iter[batch_no + 1]
            /\ iter' = iter + 1
            /\ idx' = 0
            /\ pc' = "sync_loop"
            /\ UNCHANGED epoch
       ELSE /\ epoch' = epoch + 1
            /\ pc' = "epoch_loop"
            /\ UNCHANGED <<num_samples, iter, idx>>
    /\ UNCHANGED <<env, train_iter, params, kvstore_dist, is_master_worker, batch_no,
                   global_iters, log>>

\* lines 134-137: one turn of the exchange loop, up to and including push
SyncPush ==
    /\ pc = "sync_loop"
    /\ IF idx >= Len(params)
       THEN /\ pc' = "waitall"
            /\ UNCHANGED <<idx, log>>
       ELSE IF GradReq(idx) = "null"
       THEN /\ idx' = idx + 1
            /\ UNCHANGED <<pc, log>>
       ELSE \E ok \in BOOLEAN :
                /\ log' = Append(log, PushCall(idx, ok))
                /\ IF ok THEN pc' = "sync_pull" ELSE Raise
                /\ UNCHANGED idx
    /\ UNCHANGED <<env, train_iter, params, kvstore_dist, is_master_worker, epoch, batch_no,
                   num_samples, global_iters, iter>>

\* lines 138-139
SyncPull ==
    /\ pc = "sync_pull"
    /\ \E ok \in BOOLEAN :
        /\ log' = Append(log, PullCall(idx, ok))
        /\ IF ok THEN pc' = "sync_loop" /\ idx' = idx + 1
                 ELSE Raise /\ UNCHANGED idx
    /\ UNCHANGED <<env, train_iter, params, kvstore_dist, is_master_worker, epoch, batch_no,
                   num_samples, global_iters, iter>>

WaitallAfterEval ==
    /\ pc = "waitall"
    /\ pc' = "eval"
    /\ global_iters' = global_iters + 1
    /\ UNCHANGED <<env, train_iter, params, kvstore_dist, is_master_worker, idx, epoch,
                   batch_no, num_samples, iter, log>>

\* lines 142-144
Waitall ==
    /\ pc = "waitall"
    /\ \E ok \in BOOLEAN :
        /\ log' = Append(log, WaitallCall(ok))
        /\ IF ok THEN pc' = "eval" /\ global_iters' = global_iters + 1
                 ELSE Raise /\ UNCHANGED global_iters
    /\ UNCHANGED <<env, train_iter, params, kvstore_dist, is_master_worker, idx, epoch, batch_no,
                   num_samples, iter>>

\* lines 147-149
Eval ==
    /\ pc = "eval"
    /\ log' = Append(log, EvalCall)
    /\ batch_no' = batch_no + 1
    /\ pc' = "batch_loop"
    /\ UNCHANGED <<env, train_iter, params, kvstore_dist, is_master_worker, idx, epoch,
                   num_samples, global_iters, iter>>

Next ==
    \/ BuildNet
    \/ Configure
    \/ StartupInit
    \/ StartupPull
    \/ StartupWaitall
    \/ LoadData
    \/ EpochLoop
    \/ BatchLoop
    \/ SyncPush
    \/ SyncPull
    \/ Waitall
    \/ Eval

Spec == Init /\ [][Next]_vars

\* The script is the only thing running in its process: it keeps going.
FairSpec == Spec /\ WF_vars(Next)

--------------------------------------------------------------------------
\* Reading the history.

Keys == 0..(NumParams - 1)
Trainable == Keys \ grad_req_null
At(op) == {p \in DOMAIN log : log[p].op = op}
AtIn(op, k) == {p \in DOMAIN log : log[p].op = op /\ log[p].it = k}
In(S, k) == {p \in S : log[p].it = k}
Of(S, i) == {p \in S : log[p].key = i}

\* the number of epochs the outer loop runs: range(epochs) is empty for epochs <= 0
Rounds == IF args.epochs > 0 THEN args.epochs ELSE 0

\* C1: in every training iteration each trainable index gets exactly one push
\* and one pull, the pull right after the push, indices in increasing order;
\* an index whose grad_req is "null" never gets a push or a pull.
C1_PushThenPullPerIndex ==
    LET pushes == At("push")
        pulls == {p \in At("pull") : log[p].it > 0}
        pushed == {<<log[p].it, log[p].key>> : p \in pushes}
        pulled == {<<log[p].it, log[p].key>> : p \in pulls}
        over == {log[p].it : p \in At("waitall")} \ {0}
    IN
    /\ \A p \in pushes \cup At("pull") : log[p].key \notin grad_req_null
    /\ Cardinality(pushed) = Cardinality(pushes)
    /\ Cardinality(pulled) = Cardinality(pulls)
    /\ \A k \in over : \A i \in Trainable : <<k, i>> \in pushed /\ <<k, i>> \in pulled
    /\ \A p \in pulls :
          /\ log[p - 1].op = "push"
          /\ log[p - 1].it = log[p].it
          /\ log[p - 1].key = log[p].key
    /\ \A k \in 1..iter :
          \A p, q \in In(pushes, k) : p < q => log[p].key < log[q].key

C1_Witness ==
    /\ pc = "eval"
    /\ iter = 2
    /\ grad_req_null # {}
    /\ Cardinality(AtIn("push", 2)) = Cardinality(Trainable)

\* C2: every training iteration has exactly one barrier, after all of its
\* pushes and pulls; the evaluation of the iteration and the exchange of the
\* next one come only after that barrier has returned.
C2_OneBarrierPerIteration ==
    LET waits == At("waitall")
        bars == [k \in 0..iter |-> In(waits, k)]
        returned == [k \in 0..iter |-> {b \in bars[k] : log[b].ok}]
        evals == At("eval_acc")
    IN
    /\ \A k \in 1..iter : Cardinality(bars[k]) <= 1
    /\ \A p \in At("push") \cup At("pull") :
          /\ \A b \in bars[log[p].it] : p < b
          /\ log[p].it > 1 => \E b \in returned[log[p].it - 1] : b < p
    /\ \A e \in evals : \E b \in returned[log[e].it] : b < e
    /\ \A k \in 1..iter :
          (k < iter \/ In(evals, k) # {}) => Cardinality(bars[k]) = 1

C2_Witness ==
    /\ iter = 2
    /\ pc = "sync_pull"
    /\ AtIn("eval_acc", 1) # {}

\* C3: with --local the store created is the local one, whatever the other flags.
C3_LocalFlagGivesLocalStore ==
    (args.run_local /\ kvstore_dist # "none") => kvstore_dist = "local"

\* C4: in the mix-synchronous mode the store is "dist_async", and in the
\* mix-synchronous, DC-ASGD and default synchronous modes set_optimizer is
\* called once by the process the store names master worker and never by
\* another process.
C4_OnlyMasterInstallsOptimizer ==
    (pc \notin {"build", "config"} /\ (args.is_mix_sync \/ args.is_dcasgd \/ ~args.run_local)) =>
        /\ args.is_mix_sync => kvstore_dist = "dist_async"
        /\ kvstore_dist \in {"dist_async", "dist_sync"}
        /\ Cardinality(At("set_optimizer")) = (IF is_master_worker THEN 1 ELSE 0)

C4_Witness ==
    /\ args.is_mix_sync
    /\ ~is_master_worker
    /\ pc = "eval"
    /\ At("set_optimizer") = {}

\* C5: every push and every pull of index i carries priority -i, at start-up
\* and in the training loop, so a smaller index has the strictly higher priority.
C5_PriorityIsNegatedIndex ==
    LET calls == At("push") \cup At("pull")
        used == {<<log[p].key, log[p].priority>> : p \in calls}
    IN  /\ \A p \in calls : log[p].priority = 0 - log[p].key
        /\ \A a, b \in used : a[1] < b[1] => a[2] > b[2]

C5_Witness ==
    /\ \E p \in AtIn("pull", 0) : log[p].key = 3 /\ log[p].priority < 0
    /\ \E p \in AtIn("push", 1) : log[p].key = 4 /\ log[p].priority < 0
    /\ \E p \in AtIn("pull", 1) : log[p].key = 3

\* C6: whatever the batch size, every init, push and pull of index i passes
\* an array of the shape and dtype of parameter i.
ParameterShapes ==
    << <<6, 1, 5, 5>>, <<6>>, <<16, 6, 5, 5>>, <<16>>, <<120, 256>>, <<120>>,
       <<84, 120>>, <<84>>, <<10, 84>>, <<10>> >>

C6_ShapeAndDtypeAgree ==
    /\ \A p \in At("init") :
          /\ log[p].value.shape = ParameterShapes[log[p].key + 1]
          /\ log[p].value.dtype = "float32"
    /\ \A p \in At("push") :
          /\ log[p].value.shape = ParameterShapes[log[p].key + 1]
          /\ log[p].value.dtype = "float32"
    /\ \A p \in At("pull") :
          /\ log[p].out.shape = ParameterShapes[log[p].key + 1]
          /\ log[p].out.dtype = "float32"

C6_Witness ==
    /\ args.batch_size > 1
    /\ pc = "done"
    /\ \E p \in At("init") : log[p].key = 4
    /\ \E p \in At("push") : log[p].key = 4
    /\ \E p \in AtIn("pull", 1) : log[p].key = 4

\* C7: the value pushed for index i is the gradient of parameter i accumulated
\* over the batch of the iteration, divided by the number of samples of that
\* batch (not by the configured batch size).
BatchOf(k) == train_iter[((k - 1) % Len(train_iter)) + 1]

C7_GradientScaledBySamples ==
    \A p \in At("push") :
        /\ log[p].value.grad = [param |-> log[p].key, iter |-> log[p].it,
                                samples |-> BatchOf(log[p].it)]
        /\ log[p].value.div = BatchOf(log[p].it)

C7_Witness ==
    \E p \in At("push") : log[p].ok /\ log[p].value.div < args.batch_size

\* C8: a store call or a barrier that fails ends the script: the failed call
\* is the last call ever issued, and no (iteration, index) pair sees two pushes
\* or two pulls.
C8_FailureEndsTheScript ==
    LET pushes == At("push")
        pulls == At("pull")
    IN
    /\ \A p \in DOMAIN log : ~log[p].ok => (p = Len(log) /\ pc = "failed")
    /\ pc = "failed" => (log # <<>> /\ ~log[Len(log)].ok)
    /\ Cardinality({<<log[p].it, log[p].key>> : p \in pushes}) = Cardinality(pushes)
    /\ Cardinality({<<log[p].it, log[p].key>> : p \in pulls}) = Cardinality(pulls)

C8_Witness ==
    /\ pc = "failed"
    /\ iter = 2
    /\ log[Len(log)].op = "pull"

\* C9: at start-up every trainable index is initialised exactly once, before
\* any pull or push of it; a worker pulls each trainable index once right
\* after its init and passes the barrier before its first push; the master
\* worker only initialises and returns right after the barrier.
C9_StartupProtocol ==
    LET inits == At("init")
        initOf == [i \in Keys |-> Of(inits, i)]
        pushes == At("push")
        pulls == At("pull")
        pull0 == In(pulls, 0)
        wait0 == AtIn("waitall", 0)
    IN
    /\ \A i \in Keys : Cardinality(initOf[i]) <= 1
    /\ \A p \in inits : log[p].key \notin grad_req_null
    /\ wait0 # {} =>
          \A i \in Trainable :
             /\ Cardinality(initOf[i]) = 1
             /\ ~is_master_worker => Cardinality(Of(pull0, i)) = 1
    /\ \A p \in pushes \cup pulls : \E q \in initOf[log[p].key] : q < p /\ log[q].ok
    /\ \A p \in pull0 : log[p - 1].op = "init" /\ log[p - 1].key = log[p].key
    /\ \A i \in Keys : Cardinality(Of(pull0, i)) <= 1
    /\ \A p \in pushes : \E b \in wait0 : b < p /\ log[b].ok
    /\ is_master_worker =>
          /\ pulls = {} /\ pushes = {} /\ At("load_data") = {} /\ At("eval_acc") = {}
          /\ pc = "done" => (log[Len(log)].op = "waitall" /\ log[Len(log)].it = 0)

C9_WitnessMaster ==
    /\ is_master_worker
    /\ pc = "done"
    /\ Cardinality(At("init")) = Cardinality(Trainable)

C9_Witness ==
    /\ ~is_master_worker
    /\ At("push") # {}
    /\ grad_req_null # {}
    /\ Cardinality(AtIn("pull", 0)) = Cardinality(Trainable)

\* C10: when no call fails a worker ends after epochs x B iterations, with
\* epochs x B x T pushes, as many training pulls and one evaluation per
\* iteration (none of them for epochs <= 0); global_iters starts at 1, is
\* never reset and is one more than the number of completed iterations.
C10_Counts ==
    /\ (pc = "done" /\ ~is_master_worker) =>
          /\ iter = Rounds * Len(train_iter)
          /\ Cardinality(At("push")) = Rounds * Len(train_iter) * Cardinality(Trainable)
          /\ Cardinality(At("pull") \ AtIn("pull", 0))
                = Rounds * Len(train_iter) * Cardinality(Trainable)
          /\ Cardinality(At("eval_acc")) = iter
          /\ LET evals == At("eval_acc")
             IN  \A k \in 1..iter : Cardinality(In(evals, k)) = 1
    /\ args.epochs <= 0 => At("push") = {}
    /\ At("load_data") # {} =>
          /\ global_iters = 1 + Cardinality({p \in At("waitall") : log[p].it > 0 /\ log[p].ok})
          /\ pc \in {"epoch_loop", "batch_loop", "done"} =>
                global_iters = 1 + Cardinality(At("eval_acc"))

====
